---- MODULE Spec2Model ----
(***************************************************************************)
(* quick_verify.py: a supervisor (main) validates each database's schema,  *)
(* puts every table of it on a shared multiprocessing.Queue, and a pool of *)
(* daemon worker processes pg_dumps the tables to /dev/null.               *)
(*                                                                         *)
(* The queue is modelled at the contract of a process-safe FIFO: put       *)
(* appends, get blocks until an item is there and removes the head, and    *)
(* empty() reads the current content.                                      *)
(***************************************************************************)
EXTENDS Integers, Sequences, FiniteSets, TLC

\* ---- bounds of the model ------------------------------------------------
MaxJobs == 2        \* largest value of args.jobs (-j)
MaxDBs == 2         \* largest number of databases the server lists
MaxTables == 2      \* largest number of tables a database lists
MaxRetCode == 1     \* exit statuses of pg_dump are 0..MaxRetCode

\* ---- program constants --------------------------------------------------
PollSeconds == 5
ProgressSeconds == 60

NoDB == 0                         \* args.dbname not given (None)
NoJob == <<>>                     \* a worker holds no job
WorkerIds == 0..(MaxJobs - 1)     \* range(args.jobs)
RetCodes == 0..MaxRetCode
Jobs == (1..MaxDBs) \X (1..MaxTables)

\* What pg_dump may print (stdout and stderr merged, line 28).
Marker == "No matching tables were found"
Outputs == { "pg_dump: " \o Marker,
             "pg_dump: server closed the connection unexpectedly" }
\* What a dump may end with: (retcode, output) of shell_exec_with_output
DumpOutcomes == RetCodes \X Outputs

VARIABLES
    args,          \* [jobs, dbname]: the parsed command line
    env,           \* [pg_dumpall, ndbs]: what the run finds: whether pg_dumpall
                   \* is in args.bindir, and the number of databases listed
    pc,            \* the position of main()
    verdict,       \* "ongoing", "succeeded" (exit 0) or "failed" (exit 1)
    dbs,           \* main: the list of databases to test
    dbIdx,         \* main: index in dbs of the for loop's db
    tables,        \* addTablesFromDB: len(tables) of the db being added
    t,             \* addTablesFromDB: index of the next table to put
    tables_added,  \* main: running total
    i,             \* main: seconds waited, for progress reporting
    workers,       \* the list of started worker processes (ids)
    queue,         \* the multiprocessing.Queue of (dbname, tbl)
    wstate,        \* per worker: position of workerProcess
    inflight,      \* per worker: the (dbname, tbl) it got from the queue
    \* history of the run
    schemaLog,     \* db -> "none", "ok" or "failed": result of verifySchema
    listed,        \* the dbs whose tables were listed by addTablesFromDB
    enqueued,      \* every job put on the queue, in order
    dequeued,      \* every <<job, worker>> got from the queue, in order
    dumpLog,       \* per job: <<worker, retcode, output, class>> of every finished
                   \* dump of it; class is what the worker made of it
    orphaned       \* a worker ended while the queue was not empty

vars == << args, env, pc, verdict, dbs, dbIdx, tables, t, tables_added, i, workers,
           queue, wstate, inflight, schemaLog, listed, enqueued, dequeued,
           dumpLog, orphaned >>

mainVars == << pc, verdict, dbs, dbIdx, tables, t, tables_added, i, workers >>
workerVars == << wstate, inflight, dequeued, dumpLog, orphaned >>
histMain == << schemaLog, listed, enqueued >>

\* ---- pure helpers -------------------------------------------------------

\* output.find("No matching tables were found"): index of the marker or -1
Find(output) ==
    IF output = "pg_dump: " \o Marker THEN Len("pg_dump: ") ELSE -1

Classify_markerFirst(retcode, output) ==
    IF Find(output) >= 0
    THEN "soft_failure"
    ELSE IF retcode # 0 THEN "hard_failure" ELSE "success"

Classify_noMarker(retcode, output) ==
    IF retcode # 0 THEN "hard_failure" ELSE "success"

\* lines 45-50: what the worker does with (retcode, output)
Classify(retcode, output) ==
    IF retcode # 0
    THEN IF Find(output) >= 0 THEN "soft_failure" ELSE "hard_failure"
    ELSE "success"

\* lines 89-93
allWorkersAlive ==
    \A k \in 1..Len(workers) : wstate[workers[k]] # "Terminated"

\* ---- initial state ------------------------------------------------------

Init ==
    /\ args \in [jobs : 0..MaxJobs, dbname : {NoDB} \cup (1..MaxDBs)]
    /\ env \in [pg_dumpall : BOOLEAN, ndbs : 0..MaxDBs]
    /\ pc = "start"
    /\ verdict = "ongoing"
    /\ dbs = <<>>
    /\ dbIdx = 1
    /\ tables = 0
    /\ t = 1
    /\ tables_added = 0
    /\ i = 0
    /\ workers = <<>>
    /\ queue = <<>>
    /\ wstate = [w \in WorkerIds |-> "NotStarted"]
    /\ inflight = [w \in WorkerIds |-> NoJob]
    /\ schemaLog = [d \in 1..MaxDBs |-> "none"]
    /\ listed = {}
    /\ enqueued = <<>>
    /\ dequeued = <<>>
    /\ dumpLog = [j \in Jobs |-> <<>>]
    /\ orphaned = FALSE

\* ---- main (the Supervisor) ----------------------------------------------

\* An uncaught exception (raise Exception, lines 119, 127, 70, 140) or exit(1)
\* (line 147) ends main with exit status 1.
Fail ==
    /\ verdict' = "failed"
    /\ pc' = "done"

main_startup_noLookup ==
    /\ pc = "start"
    /\ IF ~env.pg_dumpall
       THEN Fail /\ dbs' = dbs
       ELSE /\ dbs' = IF args.dbname # NoDB THEN << args.dbname >>
                                              ELSE [k \in 1..env.ndbs |-> k]
            /\ pc' = "launch"
            /\ verdict' = verdict
    /\ UNCHANGED << args, env, dbIdx, tables, t, tables_added, i, workers, queue >>
    /\ UNCHANGED workerVars
    /\ UNCHANGED histMain

\* lines 118-128: the binaries folder is checked, the databases are listed and
\* -d is looked up in them. The connectable non-template databases are named
\* 1..env.ndbs, in datname order.
main_startup ==
    /\ pc = "start"
    /\ IF ~env.pg_dumpall
       THEN Fail /\ dbs' = dbs
       ELSE IF args.dbname # NoDB
            THEN IF args.dbname \notin 1..env.ndbs
                 THEN Fail /\ dbs' = [k \in 1..env.ndbs |-> k]
                 ELSE /\ dbs' = << args.dbname >>
                      /\ pc' = "launch"
                      /\ verdict' = verdict
            ELSE /\ dbs' = [k \in 1..env.ndbs |-> k]
                 /\ pc' = "launch"
                 /\ verdict' = verdict
    /\ UNCHANGED << args, env, dbIdx, tables, t, tables_added, i, workers, queue >>
    /\ UNCHANGED workerVars
    /\ UNCHANGED histMain

\* lines 53-60 (called at line 130): range(args.jobs) daemon processes are
\* started and appended to workers.
launchWorkers ==
    /\ pc = "launch"
    /\ workers' = [k \in 1..args.jobs |-> k - 1]
    /\ wstate' = [w \in WorkerIds |-> IF w < args.jobs THEN "Idle" ELSE wstate[w]]
    /\ pc' = "for"
    /\ UNCHANGED << args, env, verdict, dbs, dbIdx, tables, t, tables_added, i, queue >>
    /\ UNCHANGED << inflight, dequeued, dumpLog, orphaned >>
    /\ UNCHANGED histMain

verifySchema_noRaise ==
    /\ pc = "for"
    /\ dbIdx <= Len(dbs)
    /\ \E retcode \in RetCodes :
         schemaLog' = [schemaLog EXCEPT
                         ![dbs[dbIdx]] = IF retcode # 0 THEN "failed" ELSE "ok"]
    /\ pc' = "list"
    /\ UNCHANGED << args, env, verdict, dbs, dbIdx, tables, t, tables_added, i, workers,
                    queue >>
    /\ UNCHANGED workerVars
    /\ UNCHANGED << listed, enqueued >>

\* lines 63-70 (called at line 135): the schema-only dump of the for loop's db;
\* a non-zero exit status raises.
verifySchema ==
    /\ pc = "for"
    /\ dbIdx <= Len(dbs)
    /\ \E retcode \in RetCodes :
         IF retcode # 0
         THEN /\ Fail
              /\ schemaLog' = [schemaLog EXCEPT ![dbs[dbIdx]] = "failed"]
         ELSE /\ pc' = "list"
              /\ verdict' = verdict
              /\ schemaLog' = [schemaLog EXCEPT ![dbs[dbIdx]] = "ok"]
    /\ UNCHANGED << args, env, dbs, dbIdx, tables, t, tables_added, i, workers, queue >>
    /\ UNCHANGED workerVars
    /\ UNCHANGED << listed, enqueued >>

listTables_unverified ==
    /\ pc = "list" \/ (pc = "for" /\ dbIdx <= Len(dbs))
    /\ \E n \in 0..MaxTables : tables' = n
    /\ t' = 1
    /\ listed' = listed \cup { dbs[dbIdx] }
    /\ pc' = "put"
    /\ UNCHANGED << args, env, verdict, dbs, dbIdx, tables_added, i, workers, queue >>
    /\ UNCHANGED workerVars
    /\ UNCHANGED << schemaLog, enqueued >>

\* lines 72-82: the tables of the db are listed, largest first; table k of the
\* answer is named k.
listTables ==
    /\ pc = "list"
    /\ \E n \in 0..MaxTables : tables' = n
    /\ t' = 1
    /\ listed' = listed \cup { dbs[dbIdx] }
    /\ pc' = "put"
    /\ UNCHANGED << args, env, verdict, dbs, dbIdx, tables_added, i, workers, queue >>
    /\ UNCHANGED workerVars
    /\ UNCHANGED << schemaLog, enqueued >>

\* lines 83-84: one queue.put((dbname, t))
putTable ==
    /\ pc = "put"
    /\ t <= tables
    /\ queue' = Append(queue, << dbs[dbIdx], t >>)
    /\ enqueued' = Append(enqueued, << dbs[dbIdx], t >>)
    /\ t' = t + 1
    /\ UNCHANGED << args, env, pc, verdict, dbs, dbIdx, tables, tables_added, i, workers >>
    /\ UNCHANGED workerVars
    /\ UNCHANGED << schemaLog, listed >>

addTablesFromDB_return_overwrite ==
    /\ pc = "put"
    /\ t > tables
    /\ tables_added' = tables
    /\ dbIdx' = dbIdx + 1
    /\ pc' = "for"
    /\ UNCHANGED << args, env, verdict, dbs, tables, t, i, workers, queue >>
    /\ UNCHANGED workerVars
    /\ UNCHANGED histMain

\* lines 85-86 and 136-137: addTablesFromDB returns len(tables), which main adds
\* to tables_added before the next db.
addTablesFromDB_return ==
    /\ pc = "put"
    /\ t > tables
    /\ tables_added' = tables_added + tables
    /\ dbIdx' = dbIdx + 1
    /\ pc' = "for"
    /\ UNCHANGED << args, env, verdict, dbs, tables, t, i, workers, queue >>
    /\ UNCHANGED workerVars
    /\ UNCHANGED histMain

checkTablesAdded_noCheck ==
    /\ pc = "for"
    /\ dbIdx > Len(dbs)
    /\ pc' = "wait"
    /\ i' = 0
    /\ UNCHANGED << args, env, verdict, dbs, dbIdx, tables, t, tables_added, workers,
                    queue >>
    /\ UNCHANGED workerVars
    /\ UNCHANGED histMain

\* lines 139-143: after the last db
checkTablesAdded ==
    /\ pc = "for"
    /\ dbIdx > Len(dbs)
    /\ IF tables_added = 0
       THEN Fail /\ i' = i
       ELSE /\ pc' = "wait"
            /\ i' = 0
            /\ verdict' = verdict
    /\ UNCHANGED << args, env, dbs, dbIdx, tables, t, tables_added, workers, queue >>
    /\ UNCHANGED workerVars
    /\ UNCHANGED histMain

\* line 144 and line 153: while not queue.empty(); when the queue is empty
\* main logs "Done. No errors encountered" and returns (exit status 0).
waitTest ==
    /\ pc = "wait"
    /\ IF queue = <<>>
       THEN /\ verdict' = "succeeded"
            /\ pc' = "done"
       ELSE /\ pc' = "alive"
            /\ verdict' = verdict
    /\ UNCHANGED << args, env, dbs, dbIdx, tables, t, tables_added, i, workers, queue >>
    /\ UNCHANGED workerVars
    /\ UNCHANGED histMain

\* lines 145-147
livenessCheck ==
    /\ pc = "alive"
    /\ IF ~allWorkersAlive
       THEN Fail
       ELSE /\ pc' = "sleep"
            /\ verdict' = verdict
    /\ UNCHANGED << args, env, dbs, dbIdx, tables, t, tables_added, i, workers, queue >>
    /\ UNCHANGED workerVars
    /\ UNCHANGED histMain

\* lines 148-151: i counts the seconds slept; it is read only as i % 60, to
\* log the queue size, so it is kept modulo ProgressSeconds.
sleepTick ==
    /\ pc = "sleep"
    /\ i' = (i + PollSeconds) % ProgressSeconds
    /\ pc' = "wait"
    /\ UNCHANGED << args, env, verdict, dbs, dbIdx, tables, t, tables_added, workers, queue >>
    /\ UNCHANGED workerVars
    /\ UNCHANGED histMain

\* ---- workerProcess ------------------------------------------------------
\* The workers are daemon processes (line 58): they are terminated when main
\* ends, so a worker takes steps only while the verdict is open.

\* line 39-40: the worker calls queue.get() and blocks in it
workerLoop(w) ==
    /\ verdict = "ongoing"
    /\ wstate[w] = "Idle"
    /\ wstate' = [wstate EXCEPT ![w] = "Dequeuing"]
    /\ UNCHANGED mainVars
    /\ UNCHANGED << args, env, queue, inflight, dequeued, dumpLog, orphaned >>
    /\ UNCHANGED histMain

workerGet_nonblocking(w) ==
    /\ verdict = "ongoing"
    /\ wstate[w] = "Dequeuing"
    /\ IF queue = <<>>
       THEN /\ wstate' = [wstate EXCEPT ![w] = "Terminated"]
            /\ UNCHANGED << queue, inflight, dequeued >>
       ELSE /\ inflight' = [inflight EXCEPT ![w] = Head(queue)]
            /\ queue' = Tail(queue)
            /\ dequeued' = Append(dequeued, << Head(queue), w >>)
            /\ wstate' = [wstate EXCEPT ![w] = "Dumping"]
    /\ UNCHANGED mainVars
    /\ UNCHANGED << args, env, dumpLog, orphaned >>
    /\ UNCHANGED histMain

workerGet_lifo(w) ==
    /\ verdict = "ongoing"
    /\ wstate[w] = "Dequeuing"
    /\ queue # <<>>
    /\ inflight' = [inflight EXCEPT ![w] = queue[Len(queue)]]
    /\ queue' = SubSeq(queue, 1, Len(queue) - 1)
    /\ dequeued' = Append(dequeued, << queue[Len(queue)], w >>)
    /\ wstate' = [wstate EXCEPT ![w] = "Dumping"]
    /\ UNCHANGED mainVars
    /\ UNCHANGED << args, env, dumpLog, orphaned >>
    /\ UNCHANGED histMain

workerGet_noPop(w) ==
    /\ verdict = "ongoing"
    /\ wstate[w] = "Dequeuing"
    /\ queue # <<>>
    /\ inflight' = [inflight EXCEPT ![w] = Head(queue)]
    /\ dequeued' = Append(dequeued, << Head(queue), w >>)
    /\ wstate' = [wstate EXCEPT ![w] = "Dumping"]
    /\ UNCHANGED mainVars
    /\ UNCHANGED << args, env, queue, dumpLog, orphaned >>
    /\ UNCHANGED histMain

\* line 40: queue.get() returns the head of the queue; lines 41-44: pg_dump of
\* the table is started
workerGet(w) ==
    /\ verdict = "ongoing"
    /\ wstate[w] = "Dequeuing"
    /\ queue # <<>>
    /\ inflight' = [inflight EXCEPT ![w] = Head(queue)]
    /\ queue' = Tail(queue)
    /\ dequeued' = Append(dequeued, << Head(queue), w >>)
    /\ wstate' = [wstate EXCEPT ![w] = "Dumping"]
    /\ UNCHANGED mainVars
    /\ UNCHANGED << args, env, dumpLog, orphaned >>
    /\ UNCHANGED histMain

dumpEnds_requeue(w, ends) ==
    /\ verdict = "ongoing"
    /\ wstate[w] = "Dumping"
    /\ \E e \in ends :
         LET retcode == e[1]
             output == e[2]
             outcome == Classify(retcode, output) IN
         /\ dumpLog' = [dumpLog EXCEPT
                          ![inflight[w]] = Append(@, << w, retcode, output, outcome >>)]
         /\ queue' = IF outcome = "soft_failure" THEN Append(queue, inflight[w])
                                                 ELSE queue
         /\ IF outcome = "hard_failure"
            THEN /\ wstate' = [wstate EXCEPT ![w] = "Terminated"]
                 /\ orphaned' = (orphaned \/ queue # <<>>)
            ELSE /\ wstate' = [wstate EXCEPT ![w] = "Idle"]
                 /\ orphaned' = orphaned
    /\ inflight' = [inflight EXCEPT ![w] = NoJob]
    /\ UNCHANGED mainVars
    /\ UNCHANGED << args, env, dequeued >>
    /\ UNCHANGED histMain

\* lines 44-50: pg_dump ends with a (retcode, output) among ends; the worker
\* goes on with the next job or exits.
dumpEnds(w, ends) ==
    /\ verdict = "ongoing"
    /\ wstate[w] = "Dumping"
    /\ \E e \in ends :
         LET retcode == e[1]
             output == e[2]
             outcome == Classify(retcode, output) IN
         /\ dumpLog' = [dumpLog EXCEPT
                          ![inflight[w]] = Append(@, << w, retcode, output, outcome >>)]
         /\ IF outcome = "hard_failure"
            THEN /\ wstate' = [wstate EXCEPT ![w] = "Terminated"]
                 /\ orphaned' = (orphaned \/ queue # <<>>)
            ELSE /\ wstate' = [wstate EXCEPT ![w] = "Idle"]
                 /\ orphaned' = orphaned
    /\ inflight' = [inflight EXCEPT ![w] = NoJob]
    /\ UNCHANGED mainVars
    /\ UNCHANGED << args, env, queue, dequeued >>
    /\ UNCHANGED histMain

workerDump(w) == dumpEnds(w, DumpOutcomes)

\* The dumps of a run in which no worker crashes: every pg_dump ends with
\* exit status 0 or with the marker in its output.
CleanOutcomes ==
    { e \in DumpOutcomes : e[1] = 0 \/ e[2] = "pg_dump: " \o Marker }

workerDumpClean(w) == dumpEnds(w, CleanOutcomes)

\* ---- specifications -----------------------------------------------------

mainStep ==
    \/ main_startup
    \/ launchWorkers
    \/ verifySchema
    \/ listTables
    \/ putTable
    \/ addTablesFromDB_return
    \/ checkTablesAdded
    \/ waitTest
    \/ livenessCheck
    \/ sleepTick

workerProcess(w) ==
    \/ workerLoop(w)
    \/ workerGet(w)
    \/ workerDump(w)

Next ==
    \/ mainStep
    \/ \E w \in WorkerIds : workerProcess(w)

Spec == Init /\ [][Next]_vars

\* Runs whose dumps all end in success or with the table missing. Every
\* process is scheduled and every pg_dump subprocess terminates: main and
\* each worker take their next step when it stays possible.
workerProcessClean(w) ==
    \/ workerLoop(w)
    \/ workerGet(w)
    \/ workerDumpClean(w)

NextClean ==
    \/ mainStep
    \/ \E w \in WorkerIds : workerProcessClean(w)

FairSpec ==
    /\ Init
    /\ [][NextClean]_vars
    /\ WF_vars(mainStep)
    /\ \A w \in WorkerIds : WF_vars(workerProcessClean(w))

\* Runs with every dump outcome, in which every process is scheduled and every
\* pg_dump subprocess terminates.
FairSpecAll ==
    /\ Init
    /\ [][Next]_vars
    /\ WF_vars(mainStep)
    /\ \A w \in WorkerIds : WF_vars(workerProcess(w))

\* ---- properties ---------------------------------------------------------

\* The outcome classes as the specification words them, from the recorded
\* (retcode, output) of a dump.
HasMarker(output) == output = "pg_dump: " \o Marker
IsSuccess(e) == e[2] = 0
IsSoft(e) == e[2] # 0 /\ HasMarker(e[3])
IsHard(e) == e[2] # 0 /\ ~HasMarker(e[3])

DumpsOf(j) == { dumpLog[j][k] : k \in 1..Len(dumpLog[j]) }
AllDumps == UNION { DumpsOf(j) : j \in Jobs }
HardFailureHappened == \E e \in AllDumps : IsHard(e)
SoftFailureHappened == \E e \in AllDumps : IsSoft(e)
TimesDequeued(j) == Cardinality({ m \in 1..Len(dequeued) : dequeued[m][1] = j })
InDrainWait == pc \in { "wait", "alive", "sleep" }
\* every database was processed and main went past the zero-tables check
PastEnqueueing == dbIdx > Len(dbs) /\ tables_added > 0 /\ (InDrainWait \/ pc = "done")

\* C1: once some dump has ended in a hard failure (non-zero exit status, no
\* marker in the output), the run never ends with the verdict succeeded.
C1_HardFailureNeverSucceeds ==
    HardFailureHappened => verdict # "succeeded"

\* C2: in a run whose workers never crash, with at least one worker, no job is
\* ever dequeued twice, and once main waits for the drain the run eventually
\* ends succeeded with every enqueued job dequeued exactly once.
C2_DrainSucceeds ==
    /\ [](\A j \in Jobs : TimesDequeued(j) <= 1)
    /\ (pc = "wait" /\ args.jobs >= 1)
           ~> (/\ verdict = "succeeded"
               /\ \A k \in 1..Len(enqueued) : TimesDequeued(enqueued[k]) = 1)

C2_Witness ==
    /\ verdict = "succeeded"
    /\ args.jobs = 2
    /\ Len(enqueued) = 4
    /\ \A k \in 1..Len(enqueued) : TimesDequeued(enqueued[k]) = 1
    /\ \E m, n \in 1..Len(dequeued) : dequeued[m][2] # dequeued[n][2]

\* C3: when the verdict is succeeded, no worker is dumping and every enqueued
\* job has a finished dump that ended in success or soft failure.
C3_SuccessMeansAllProcessed ==
    verdict = "succeeded" =>
        /\ \A w \in WorkerIds : wstate[w] # "Dumping"
        /\ \A k \in 1..Len(enqueued) :
             \E e \in DumpsOf(enqueued[k]) : IsSuccess(e) \/ IsSoft(e)

\* C4: when the schema validation of the k-th database failed, the run has
\* failed, and neither that database nor a later one was listed or enqueued.
C4_SchemaFailureStopsRun ==
    \A k \in 1..Len(dbs) :
        schemaLog[dbs[k]] = "failed" =>
            /\ verdict = "failed"
            /\ \A m \in k..Len(dbs) :
                 /\ dbs[m] \notin listed
                 /\ \A n \in 1..Len(enqueued) : enqueued[n][1] # dbs[m]

C4_Witness ==
    /\ Len(dbs) = 2
    /\ schemaLog[dbs[1]] = "ok"
    /\ schemaLog[dbs[2]] = "failed"
    /\ Len(enqueued) = 2
    /\ \E w \in WorkerIds : wstate[w] = "Dumping"
    /\ verdict = "failed"

\* C5: a run in which a worker ended while the queue was not empty never ends
\* with the verdict succeeded.
C5_DeadWorkerFailsRun ==
    orphaned => verdict # "succeeded"

\* C6: when the verdict is succeeded, the queue is empty and every worker of
\* the pool is alive.
C6_SuccessOnlyWithAllAlive ==
    verdict = "succeeded" => (queue = <<>> /\ allWorkersAlive)

\* C7: after a hard failure nothing more is dequeued, no dump is started, and
\* main validates, lists and enqueues nothing more.
C7_HardFailureStopsEverything ==
    [][HardFailureHappened =>
          /\ dequeued' = dequeued
          /\ enqueued' = enqueued
          /\ schemaLog' = schemaLog
          /\ listed' = listed]_vars

\* C8: a dump that ends with the table-missing marker does not end its worker
\* (a terminated worker has a hard failure of its own in the log), and a run
\* that got past enqueueing and saw no hard failure does not end failed.
C8_SoftFailureTolerated ==
    /\ \A w \in WorkerIds :
         wstate[w] = "Terminated" => \E e \in AllDumps : e[1] = w /\ IsHard(e)
    /\ (PastEnqueueing /\ pc = "done" /\ ~HardFailureHappened)
           => verdict = "succeeded"

C8_Witness ==
    /\ verdict = "succeeded"
    /\ SoftFailureHappened
    /\ \E w \in WorkerIds :
         /\ \E e \in DumpsOf(<< 1, 1 >>) : e[1] = w /\ IsSoft(e)
         /\ \E e \in DumpsOf(<< 1, 2 >>) : e[1] = w /\ IsSuccess(e)

\* C9: every job that was enqueued, is held by a worker or was dumped belongs
\* to a database whose schema validation succeeded before, and a held or
\* dumped job was enqueued before; this holds with the pool started before
\* the first validation.
C9_SchemaBeforeDump ==
    /\ \A d \in listed : schemaLog[d] = "ok"
    /\ \A k \in 1..Len(enqueued) :
         schemaLog[enqueued[k][1]] = "ok" /\ enqueued[k][1] \in listed
    /\ \A k \in 1..Len(dequeued) :
         \E m \in 1..Len(enqueued) : enqueued[m] = dequeued[k][1]
    /\ \A w \in WorkerIds :
         inflight[w] # NoJob =>
             \E m \in 1..Len(dequeued) : dequeued[m] = << inflight[w], w >>
    /\ \A j \in Jobs :
         \A e \in DumpsOf(j) :
             \E m \in 1..Len(dequeued) : dequeued[m] = << j, e[1] >>
    /\ (\A d \in 1..MaxDBs : schemaLog[d] = "none") => enqueued = <<>>

C9_Witness ==
    /\ Len(dbs) = 2
    /\ schemaLog[dbs[2]] = "none"
    /\ \E w \in WorkerIds : wstate[w] = "Dumping" /\ inflight[w][1] = dbs[1]
    /\ DumpsOf(<< dbs[1], 1 >>) # {}

\* C10: a run that never enqueued a table does not enter the drain-wait loop
\* and does not end succeeded; once every database was processed it ends
\* failed.
C10_NoTablesIsFatal ==
    enqueued = <<>> =>
        /\ ~InDrainWait
        /\ verdict # "succeeded"
        /\ (pc = "done" => verdict = "failed")

C10_Witness ==
    /\ enqueued = <<>>
    /\ Len(dbs) = 2
    /\ listed = { 1, 2 }
    /\ dbIdx > Len(dbs)
    /\ args.jobs >= 1
    /\ verdict = "failed"

TimesEnqueued(j) == Cardinality({ m \in 1..Len(enqueued) : enqueued[m] = j })
InQueue(j) == \E m \in 1..Len(queue) : queue[m] = j
Holders(j) == { w \in WorkerIds : inflight[w] = j }

\* C11: a job is taken off the queue at most once, is held by at most one
\* worker, is dumped at most once and by the worker that took it, and is not
\* in the queue again once taken; the queue grows only by main's put of a new
\* job and shrinks only by a worker's get.
C11_ConsumedAtMostOnce ==
    /\ [](\A j \in Jobs :
            /\ TimesEnqueued(j) <= 1
            /\ TimesDequeued(j) <= 1
            /\ Cardinality(Holders(j)) + Len(dumpLog[j]) <= 1
            /\ (TimesDequeued(j) = 1 => ~InQueue(j))
            /\ \A e \in DumpsOf(j) :
                 \E m \in 1..Len(dequeued) : dequeued[m] = << j, e[1] >>)
    /\ [][/\ Len(queue') > Len(queue) =>
               /\ pc = "put"
               /\ queue' = Append(queue, << dbs[dbIdx], t >>)
               /\ enqueued' = Append(enqueued, << dbs[dbIdx], t >>)
               /\ dequeued' = dequeued
          /\ Len(queue') < Len(queue) =>
               /\ queue' = Tail(queue)
               /\ enqueued' = enqueued
               /\ \E w \in WorkerIds :
                    /\ wstate[w] = "Dequeuing"
                    /\ dequeued' = Append(dequeued, << Head(queue), w >>)
          /\ Len(queue') = Len(queue) => queue' = queue]_vars

C11_Witness ==
    /\ \E e \in DumpsOf(<< 1, 1 >>) : IsSoft(e)
    /\ \E e \in DumpsOf(<< 1, 2 >>) : IsHard(e)
    /\ \E w \in WorkerIds : inflight[w] = << 2, 1 >>
    /\ queue = << << 2, 2 >> >>

\* the run found pg_dumpall missing, or -d names a database that is not listed
StartupError ==
    \/ ~env.pg_dumpall
    \/ args.dbname # NoDB /\ args.dbname \notin 1..env.ndbs

\* C12: once main is past its startup checks in a run with a missing
\* pg_dumpall or an unknown -d database, the run has failed and no worker was
\* started, no schema was validated, no table was listed and no job enqueued.
C12_StartupErrorBeforeWork ==
    (StartupError /\ pc # "start") =>
        /\ verdict = "failed"
        /\ pc = "done"
        /\ workers = <<>>
        /\ \A w \in WorkerIds : wstate[w] = "NotStarted"
        /\ \A d \in 1..MaxDBs : schemaLog[d] = "none"
        /\ listed = {}
        /\ enqueued = <<>>
        /\ queue = <<>>

C12_Witness ==
    /\ pc = "done"
    /\ verdict = "failed"
    /\ env.pg_dumpall
    /\ env.ndbs = 1
    /\ args.dbname = 2
    /\ args.jobs = 2

\* the position of database d in main's list
PosInDbs(d) == CHOOSE k \in 1..Len(dbs) : dbs[k] = d

\* C13: the jobs dequeued so far are, in order, the first jobs enqueued, and
\* the queue holds the rest in order; so of two dequeued jobs of one database
\* the larger table (the lower index of the listing) came first, and a job of
\* an earlier-listed database came before one of a later-listed database.
C13_QueueIsFifo ==
    /\ Len(dequeued) <= Len(enqueued)
    /\ \A k \in 1..Len(dequeued) : dequeued[k][1] = enqueued[k]
    /\ queue = SubSeq(enqueued, Len(dequeued) + 1, Len(enqueued))
    /\ \A m, n \in 1..Len(dequeued) :
         m < n =>
            LET a == dequeued[m][1]
                b == dequeued[n][1] IN
            /\ PosInDbs(a[1]) <= PosInDbs(b[1])
            /\ a[1] = b[1] => a[2] < b[2]

C13_Witness ==
    /\ Len(dequeued) = 3
    /\ dequeued[1] = << << 1, 1 >>, 1 >>
    /\ dequeued[2] = << << 1, 2 >>, 0 >>
    /\ dequeued[3] = << << 2, 1 >>, 1 >>
    /\ queue = << << 2, 2 >> >>

WorkerTransitions ==
    { << "NotStarted", "Idle" >>, << "Idle", "Dequeuing" >>,
      << "Dequeuing", "Dumping" >>, << "Dumping", "Idle" >>,
      << "Dumping", "Terminated" >> }

\* the dump that worker w finishes in this step ended in a hard failure
FinishesHard(w) ==
    \E e \in DumpOutcomes :
        /\ IsHard(<< w, e[1], e[2] >>)
        /\ \E c \in { "success", "soft_failure", "hard_failure" } :
             dumpLog' = [dumpLog EXCEPT
                           ![inflight[w]] = Append(@, << w, e[1], e[2], c >>)]

\* C14: a started worker is Idle, Dequeuing, Dumping or Terminated and holds a
\* job exactly while Dumping; its state changes only along Idle -> Dequeuing
\* -> Dumping -> Idle or Terminated; it becomes Terminated exactly when the
\* dump it finishes is a hard failure; in Dequeuing it stays while the queue
\* is empty; once Terminated it stays so.
C14_WorkerStateMachine ==
    /\ [](\A w \in WorkerIds :
            /\ wstate[w] \in { "NotStarted", "Idle", "Dequeuing", "Dumping",
                               "Terminated" }
            /\ (wstate[w] = "NotStarted") = (w >= Len(workers))
            /\ (inflight[w] # NoJob) = (wstate[w] = "Dumping"))
    /\ [][\A w \in WorkerIds :
            /\ wstate'[w] # wstate[w] =>
                   << wstate[w], wstate'[w] >> \in WorkerTransitions
            /\ (wstate[w] = "Dumping" /\ wstate'[w] # "Dumping") =>
                   (wstate'[w] = "Terminated") = FinishesHard(w)
            /\ (wstate[w] = "Dequeuing" /\ queue = <<>>) =>
                   wstate'[w] = "Dequeuing"
            /\ wstate[w] = "Terminated" => wstate'[w] = "Terminated"]_vars

C14_Witness ==
    /\ wstate[0] = "Terminated"
    /\ wstate[1] = "Dequeuing"
    /\ queue = <<>>
    /\ \E e \in AllDumps : e[1] = 1 /\ IsSoft(e)
    /\ \E e \in AllDumps : e[1] = 1 /\ IsSuccess(e)
    /\ \E e \in AllDumps : e[1] = 0 /\ IsHard(e)

\* class c is the one the specification gives to (retcode, output)
RightClass(retcode, output, c) ==
    /\ c \in { "success", "soft_failure", "hard_failure" }
    /\ (c = "success") = (retcode = 0)
    /\ (c = "soft_failure") = (retcode # 0 /\ HasMarker(output))
    /\ (c = "hard_failure") = (retcode # 0 /\ ~HasMarker(output))

\* C15: every (exit status, output) a dump can end with gets exactly one
\* class, and every finished dump was treated by its worker as that class:
\* success iff the exit status is 0, whatever the output; soft_failure iff it
\* is non-zero and the output has the marker; hard_failure iff it is non-zero
\* and the output has no marker.
C15_ClassificationIsTotal ==
    /\ \A e \in DumpOutcomes : RightClass(e[1], e[2], Classify(e[1], e[2]))
    /\ \A e \in AllDumps : RightClass(e[2], e[3], e[4])

C15_Witness ==
    /\ \E e \in AllDumps : e[2] = 0 /\ HasMarker(e[3]) /\ e[4] = "success"
    /\ \E e \in AllDumps : e[2] = 0 /\ ~HasMarker(e[3]) /\ e[4] = "success"
    /\ \E e \in AllDumps : e[2] # 0 /\ HasMarker(e[3]) /\ e[4] = "soft_failure"
    /\ \E e \in AllDumps : e[2] # 0 /\ ~HasMarker(e[3]) /\ e[4] = "hard_failure"

InFlight == { w \in WorkerIds : inflight[w] # NoJob }
FinishedDumps == UNION { { << j, k >> : k \in 1..Len(dumpLog[j]) } : j \in Jobs }

\* C16: the jobs enqueued so far are as many as those in the queue plus those
\* held by a worker plus the finished dumps (of any outcome), and while main
\* is in the drain-wait loop tables_added is the number of jobs enqueued.
C16_JobConservation ==
    /\ Len(enqueued) =
           Len(queue) + Cardinality(InFlight) + Cardinality(FinishedDumps)
    /\ InDrainWait => tables_added = Len(enqueued)

C16_Witness ==
    /\ pc = "wait"
    /\ tables_added = 4
    /\ Len(queue) = 1
    /\ Cardinality(InFlight) = 1
    /\ \E e \in AllDumps : IsHard(e)
    /\ \E e \in AllDumps : IsSoft(e)

\* C17: under fair scheduling, with any number of workers (zero included) and
\* any dump outcomes, main eventually ends with succeeded or failed.
C17_AlwaysReachesVerdict ==
    <>(verdict # "ongoing")

\* With at least one worker started the run does reach a verdict.
ReachesVerdictWithWorkers ==
    (args.jobs >= 1) ~> (verdict # "ongoing")

====
